---- MODULE Spec2Model ----
\* EndpointsBuilder of kenya_compliance/apis/api_builder.py: the setter-configured
\* request builder and its single entry point make_remote_call.
EXTENDS Integers, Sequences, FiniteSets, TLC

\* ---------------------------------------------------------------- bounds
\* make_remote_call invocations on one instance
MaxCalls == 2
\* length of the free part of a url in the route-derivation specification
MaxRestLen == 4

\* ---------------------------------------------------------------- values
\* Python values are tagged records, so that None, "" and {} stay distinct.
None == [tag |-> "None"]
Str(s) == [tag |-> "str", val |-> s]
Dict(d) == [tag |-> "dict", val |-> d]
Callable(n) == [tag |-> "callable", name |-> n]

\* "https://host/api/v1/endpointName"
EndpointUrl ==
    <<"h","t","t","p","s",":","/","/","h","o","s","t","/","a","p","i","/","v","1",
      "/","e","n","d","p","o","i","n","t","N","a","m","e">>
\* "/endpointName"
EndpointRoute == <<"/","e","n","d","p","o","i","n","t","N","a","m","e">>

Methods == {"POST", "PUT", "DELETE"}
\* the verbs the annotations of _method and of its setter name
EnumeratedVerbs == {"POST", "GET", "PUT", "PATCH"}
UrlValues == {Str(<<>>), Str(EndpointUrl)}
PayloadValues == {Dict({<<"tin", "P000">>})}
HeaderValues == {Dict({}), Dict({<<"cmcKey", "k">>})}
ErrorValues == {Str(<<"e">>)}
DoctypeValues == {None, Str(<<"I","t","e","m">>)}
DocnameValues == {None, Str(<<"I","-","1">>)}

\* Responses of make_post_request: mappings that may or may not carry the
\* resultCd and resultDt keys.
Responses ==
    { [resultCd |-> "000", resultDt |-> "20240101"],
      [resultCd |-> "000", resultMsg |-> "ok"],
      [resultCd |-> "001", resultDt |-> "20240101"],
      [resultCd |-> "001", resultMsg |-> "bad"],
      [resultMsg |-> "no code"] }

\* exception classes a callee may raise (KeyError comes from the subscripts)
Raisable == {"ClientConnectorError", "ClientOSError", "TimeoutError", "RuntimeError"}

\* what a call into a collaborator does: it returns (a value) or raises
Value(v) == [kind |-> "return", value |-> v]
Raises(cls) == [kind |-> "raise", cls |-> cls]
TransportOutcomes == {Value(r) : r \in Responses} \cup {Raises(c) : c \in Raisable}
CallOutcomes == {Value(None)} \cup {Raises(c) : c \in Raisable}
\* an exception in flight
Exception(cls) == [tag |-> "exception", cls |-> cls]

\* isinstance(error, cls): aiohttp's ClientConnectorError derives from ClientOSError.
IsInstance(cls, base) ==
    \/ cls = base
    \/ cls = "ClientConnectorError" /\ base = "ClientOSError"

\* ---------------------------------------------------------------- urls
\* urllib.parse.urlparse, as far as parsed_url.path depends on it.
Alpha ==
    {"a","b","c","d","e","f","g","h","i","j","k","l","m","n","o","p","q","r","s",
     "t","u","v","w","x","y","z","N"}
SchemeChars == Alpha \cup {"0","1","2","3","4","5","6","7","8","9","+","-","."}

\* schemes for which urlparse splits ";params" off the last path segment
UsesParams ==
    { <<>>, <<"f","t","p">>, <<"h","d","l">>, <<"p","r","o","s","p","e","r","o">>,
      <<"h","t","t","p">>, <<"i","m","a","p">>, <<"h","t","t","p","s">>,
      <<"s","h","t","t","p">>, <<"r","t","s","p">>, <<"r","t","s","p","s">>,
      <<"r","t","s","p","u">>, <<"s","i","p">>, <<"s","i","p","s">>,
      <<"m","m","s">>, <<"s","f","t","p">>, <<"t","e","l">> }

MinOf(S) == CHOOSE m \in S : \A n \in S : m <= n
MaxOf(S) == CHOOSE m \in S : \A n \in S : m >= n

\* str.find / str.rfind with 1-based positions; 0 when absent
Find(s, c, start) ==
    LET I == {k \in start..Len(s) : s[k] = c}
    IN  IF I = {} THEN 0 ELSE MinOf(I)
RFind(s, c) ==
    LET I == {k \in 1..Len(s) : s[k] = c}
    IN  IF I = {} THEN 0 ELSE MaxOf(I)
Contains(s, c) == \E k \in 1..Len(s) : s[k] = c

LowerChar(c) == IF c = "N" THEN "n" ELSE c
Lower(s) == [k \in 1..Len(s) |-> LowerChar(s[k])]

\* urlsplit: scheme, netloc and path (query and fragment are cut off)
UrlSplit(url) ==
    LET i == Find(url, ":", 1)
        hasScheme == /\ i > 1
                     /\ url[1] \in Alpha
                     /\ \A k \in 1..(i - 1) : url[k] \in SchemeChars
        scheme == IF hasScheme THEN Lower(SubSeq(url, 1, i - 1)) ELSE <<>>
        rest1 == IF hasScheme THEN SubSeq(url, i + 1, Len(url)) ELSE url
        hasNetloc == Len(rest1) >= 2 /\ rest1[1] = "/" /\ rest1[2] = "/"
        delims == {Find(rest1, c, 3) : c \in {"/", "?", "#"}} \ {0}
        delim == IF delims = {} THEN Len(rest1) + 1 ELSE MinOf(delims)
        netloc == IF hasNetloc THEN SubSeq(rest1, 3, delim - 1) ELSE <<>>
        rest2 == IF hasNetloc THEN SubSeq(rest1, delim, Len(rest1)) ELSE rest1
        j == Find(rest2, "#", 1)
        rest3 == IF j > 0 THEN SubSeq(rest2, 1, j - 1) ELSE rest2
        q == Find(rest3, "?", 1)
        path == IF q > 0 THEN SubSeq(rest3, 1, q - 1) ELSE rest3
    IN  [scheme |-> scheme, netloc |-> netloc, path |-> path]

\* _splitparams(url)[0]
SplitParams(url) ==
    LET slash == RFind(url, "/")
        i == IF slash > 0 THEN Find(url, ";", slash) ELSE Find(url, ";", 1)
    IN  IF i = 0 THEN url ELSE SubSeq(url, 1, i - 1)

UrlParse(url) ==
    LET r == UrlSplit(url)
    IN  IF r.scheme \in UsesParams /\ Contains(r.path, ";")
        THEN [r EXCEPT !.path = SplitParams(r.path)]
        ELSE r

\* path.split('/')[-1]
LastSegment(path) == SubSeq(path, RFind(path, "/") + 1, Len(path))

\* variant: the leading segments are kept
RoutePath_WholePath(url) == <<"/">> \o UrlParse(url).path

\* route_path = f"/{parsed_url.path.split('/')[-1]}"
RoutePath(url) == <<"/">> \o LastSegment(UrlParse(url).path)

\* ---------------------------------------------------------------- state
VARIABLES
    _method, _url, _payload, _headers, _error,
    _success_callback_handler, _error_callback_handler,
    pc,                  \* position inside make_remote_call, "idle" outside
    doctype, document_name,
    route_path, integration_request, response, error,
    trace,               \* external effects of the current make_remote_call
    raised,              \* how the last make_remote_call ended
    calls,               \* make_remote_call invocations so far
    request_logs,        \* Integration Request documents created so far
    post_requests,       \* make_post_request calls made so far
    previous             \* history: the call before the current one, None when not kept

fields == <<_method, _url, _payload, _headers, _error,
            _success_callback_handler, _error_callback_handler>>
locals == <<doctype, document_name, route_path, integration_request, response, error>>
vars == <<fields, pc, locals, trace, raised, calls, request_logs, post_requests, previous>>

Init ==
    /\ _method = "POST"
    /\ _url = None
    /\ _payload = None
    /\ _headers = None
    /\ _error = None
    /\ _success_callback_handler = None
    /\ _error_callback_handler = None
    /\ pc = "idle"
    /\ doctype = None
    /\ document_name = None
    /\ route_path = None
    /\ integration_request = None
    /\ response = None
    /\ error = None
    /\ trace = <<>>
    /\ raised = None
    /\ calls = 0
    /\ request_logs = 0
    /\ post_requests = 0
    /\ previous = None

\* ---------------------------------------------------------------- setters
SetMethod(new_method) ==
    /\ pc = "idle"
    /\ _method' = new_method
    /\ UNCHANGED <<_url, _payload, _headers, _error,
                   _success_callback_handler, _error_callback_handler>>
    /\ UNCHANGED <<pc, locals, trace, raised, calls, request_logs, post_requests>>
    /\ UNCHANGED previous

SetUrl(new_url) ==
    /\ pc = "idle"
    /\ _url' = new_url
    /\ UNCHANGED <<_method, _payload, _headers, _error,
                   _success_callback_handler, _error_callback_handler>>
    /\ UNCHANGED <<pc, locals, trace, raised, calls, request_logs, post_requests>>
    /\ UNCHANGED previous

SetPayload(new_payload) ==
    /\ pc = "idle"
    /\ _payload' = new_payload
    /\ UNCHANGED <<_method, _url, _headers, _error,
                   _success_callback_handler, _error_callback_handler>>
    /\ UNCHANGED <<pc, locals, trace, raised, calls, request_logs, post_requests>>
    /\ UNCHANGED previous

SetError(new_error) ==
    /\ pc = "idle"
    /\ _error' = new_error
    /\ UNCHANGED <<_method, _url, _payload, _headers,
                   _success_callback_handler, _error_callback_handler>>
    /\ UNCHANGED <<pc, locals, trace, raised, calls, request_logs, post_requests>>
    /\ UNCHANGED previous

SetHeaders(new_headers) ==
    /\ pc = "idle"
    /\ _headers' = new_headers
    /\ UNCHANGED <<_method, _url, _payload, _error,
                   _success_callback_handler, _error_callback_handler>>
    /\ UNCHANGED <<pc, locals, trace, raised, calls, request_logs, post_requests>>
    /\ UNCHANGED previous

SetSuccessCallback(callback) ==
    /\ pc = "idle"
    /\ _success_callback_handler' = callback
    /\ UNCHANGED <<_method, _url, _payload, _headers, _error, _error_callback_handler>>
    /\ UNCHANGED <<pc, locals, trace, raised, calls, request_logs, post_requests>>
    /\ UNCHANGED previous

SetErrorCallback(callback) ==
    /\ pc = "idle"
    /\ _error_callback_handler' = callback
    /\ UNCHANGED <<_method, _url, _payload, _headers, _error, _success_callback_handler>>
    /\ UNCHANGED <<pc, locals, trace, raised, calls, request_logs, post_requests>>
    /\ UNCHANGED previous

\* ---------------------------------------------------------------- make_remote_call
\* variant: the headers test is left out of the opening if
MissingParameters_NoHeaders(url, headers, success_callback, error_callback) ==
    \/ url = None
    \/ success_callback = None
    \/ error_callback = None

\* the condition of the opening if
MissingParameters(url, headers, success_callback, error_callback) ==
    \/ url = None
    \/ headers = None
    \/ success_callback = None
    \/ error_callback = None

\* frappe.throw(msg, exc, title=...) raises; the call does not return
Thrown(msg, title, cause) == [tag |-> "thrown", msg |-> msg, title |-> title, cause |-> cause]
\* an exception that leaves make_remote_call uncaught
Uncaught(cls) == [tag |-> "uncaught", cls |-> cls]
Returned == [tag |-> "returned"]

\* history: the call that has just ended, with the fields it ran with
LastCall ==
    [config |-> previous.config,
     doctype |-> doctype,
     document_name |-> document_name,
     response |-> response,
     error |-> error,
     trace |-> trace,
     raised |-> raised]

\* entry, validation and route derivation
MakeRemoteCall(dt, dn) ==
    /\ pc = "idle"
    /\ calls < MaxCalls
    /\ calls' = calls + 1
    /\ doctype' = dt
    /\ document_name' = dn
    /\ trace' = <<>>
    /\ integration_request' = None
    /\ response' = None
    /\ error' = None
    /\ IF MissingParameters(_url, _headers, _success_callback_handler,
                            _error_callback_handler)
       THEN /\ raised' = Thrown("Please check that all required request parameters are supplied.",
                                "Setup Error", "MandatoryError")
            /\ route_path' = None
            /\ pc' = "idle"
       ELSE /\ raised' = None
            /\ route_path' = Str(RoutePath(_url.val))
            /\ pc' = "create_request_log"
    /\ previous' = IF previous = None
                   THEN None
                   ELSE [tag |-> "kept",
                         config |-> fields,
                         last |-> IF calls = 0 THEN None ELSE LastCall]
    /\ UNCHANGED <<fields, request_logs, post_requests>>

\* variant: the request goes out without a request log
CreateRequestLog_NoRecord ==
    /\ pc = "create_request_log"
    /\ integration_request' = [name |-> request_logs + 1]
    /\ pc' = "make_post_request"
    /\ UNCHANGED <<fields, doctype, document_name, route_path, response, error,
                   trace, raised, calls, request_logs, post_requests>>
    /\ UNCHANGED previous

\* integration_request = create_request_log(...)
CreateRequestLog ==
    /\ pc = "create_request_log"
    /\ request_logs' = request_logs + 1
    /\ integration_request' = [name |-> request_logs + 1]
    /\ trace' = Append(trace, [op |-> "create_request_log",
                               data |-> _payload,
                               is_remote_request |-> TRUE,
                               service_name |-> "etims",
                               request_headers |-> _headers,
                               url |-> _url,
                               reference_docname |-> document_name,
                               reference_doctype |-> doctype,
                               name |-> request_logs + 1])
    /\ pc' = "make_post_request"
    /\ UNCHANGED <<fields, doctype, document_name, route_path, response, error,
                   raised, calls, post_requests>>
    /\ UNCHANGED previous

\* the verb of the request: the call is make_post_request whatever _method holds
RequestMethod(method) == "POST"

\* asyncio.run(make_post_request(self._url, self._payload, self._headers)):
\* the transport returns a response or raises
MakePostRequest(outcome) ==
    /\ pc = "make_post_request"
    /\ post_requests' = post_requests + 1
    /\ trace' = Append(trace, [op |-> "make_post_request",
                               method |-> RequestMethod(_method),
                               url |-> _url,
                               payload |-> _payload,
                               headers |-> _headers])
    /\ IF outcome.kind = "return"
       THEN /\ response' = outcome.value
            /\ error' = None
            /\ pc' = "classify"
       ELSE /\ response' = None
            /\ error' = Exception(outcome.cls)
            /\ pc' = "except"
    /\ UNCHANGED <<fields, doctype, document_name, route_path, integration_request,
                   raised, calls, request_logs>>
    /\ UNCHANGED previous

\* variant: the comparison is inverted
IsSuccess_Inverted(resp) == resp.resultCd # "000"

\* response["resultCd"] == "000"
IsSuccess(resp) == resp.resultCd = "000"

\* variant: a stored last error sends the response to the error callback
Classify_ChecksError ==
    /\ pc = "classify"
    /\ IF "resultCd" \notin DOMAIN response
       THEN /\ error' = Exception("KeyError")
            /\ pc' = "except"
       ELSE /\ error' = error
            /\ pc' = IF IsSuccess(response) /\ _error = None
                     THEN "success_callback" ELSE "error_callback"
    /\ UNCHANGED <<fields, doctype, document_name, route_path, integration_request,
                   response, trace, raised, calls, request_logs, post_requests>>
    /\ UNCHANGED previous

\* if response["resultCd"] == "000": a missing key raises KeyError
Classify ==
    /\ pc = "classify"
    /\ IF "resultCd" \notin DOMAIN response
       THEN /\ error' = Exception("KeyError")
            /\ pc' = "except"
       ELSE /\ error' = error
            /\ pc' = IF IsSuccess(response) THEN "success_callback" ELSE "error_callback"
    /\ UNCHANGED <<fields, doctype, document_name, route_path, integration_request,
                   response, trace, raised, calls, request_logs, post_requests>>
    /\ UNCHANGED previous

\* self._success_callback_handler(response): the handler returns or raises
SuccessCallback(outcome) ==
    /\ pc = "success_callback"
    /\ trace' = Append(trace, [op |-> "success_callback",
                               handler |-> _success_callback_handler,
                               response |-> response,
                               outcome |-> outcome.kind])
    /\ IF outcome.kind = "return"
       THEN /\ error' = error
            /\ pc' = "update_last_request_date"
       ELSE /\ error' = Exception(outcome.cls)
            /\ pc' = "except"
    /\ UNCHANGED <<fields, doctype, document_name, route_path, integration_request,
                   response, raised, calls, request_logs, post_requests>>
    /\ UNCHANGED previous

\* update_last_request_date(response["resultDt"], route_path): the subscript
\* raises KeyError before the call; the call returns or raises
UpdateLastRequestDate(outcome) ==
    /\ pc = "update_last_request_date"
    /\ IF "resultDt" \notin DOMAIN response
       THEN /\ trace' = trace
            /\ error' = Exception("KeyError")
            /\ pc' = "except"
            /\ raised' = raised
       ELSE /\ trace' = Append(trace, [op |-> "update_last_request_date",
                                       response_datetime |-> response.resultDt,
                                       route |-> route_path,
                                       outcome |-> outcome.kind])
            /\ IF outcome.kind = "return"
               THEN /\ error' = error
                    /\ pc' = "idle"
                    /\ raised' = Returned
               ELSE /\ error' = Exception(outcome.cls)
                    /\ pc' = "except"
                    /\ raised' = raised
    /\ UNCHANGED <<fields, doctype, document_name, route_path, integration_request,
                   response, calls, request_logs, post_requests>>
    /\ UNCHANGED previous

\* variant: the full url is passed where the route path belongs and the
\* request log's name is dropped
ErrorCallbackArgs_Wrong(resp, route, dt, dn, request) ==
    [response |-> resp,
     url |-> _url,
     doctype |-> dt,
     document_name |-> dn,
     integration_reqeust_name |-> None]

\* the arguments of the error callback
ErrorCallbackArgs(resp, route, dt, dn, request) ==
    [response |-> resp,
     url |-> route,
     doctype |-> dt,
     document_name |-> dn,
     integration_reqeust_name |-> request.name]

\* variant: the update of the last request date follows the error callback too
ErrorCallback_ThenUpdate(outcome) ==
    /\ pc = "error_callback"
    /\ trace' = Append(trace, [op |-> "error_callback",
                               handler |-> _error_callback_handler,
                               args |-> ErrorCallbackArgs(response, route_path, doctype,
                                                          document_name, integration_request),
                               outcome |-> outcome.kind])
    /\ IF outcome.kind = "return"
       THEN /\ error' = error
            /\ pc' = "update_last_request_date"
       ELSE /\ error' = Exception(outcome.cls)
            /\ pc' = "except"
    /\ UNCHANGED <<fields, doctype, document_name, route_path, integration_request,
                   response, raised, calls, request_logs, post_requests>>
    /\ UNCHANGED previous

\* self._error_callback_handler(response, url=..., doctype=..., ...)
ErrorCallback(outcome) ==
    /\ pc = "error_callback"
    /\ trace' = Append(trace, [op |-> "error_callback",
                               handler |-> _error_callback_handler,
                               args |-> ErrorCallbackArgs(response, route_path, doctype,
                                                          document_name, integration_request),
                               outcome |-> outcome.kind])
    /\ IF outcome.kind = "return"
       THEN /\ error' = error
            /\ pc' = "idle"
            /\ raised' = Returned
       ELSE /\ error' = Exception(outcome.cls)
            /\ pc' = "except"
            /\ raised' = raised
    /\ UNCHANGED <<fields, doctype, document_name, route_path, integration_request,
                   response, calls, request_logs, post_requests>>
    /\ UNCHANGED previous

\* variant: the ClientOSError clause comes first
ExceptClauses_OSErrorFirst ==
    << [cls |-> "ClientOSError", msg |-> "Connection reset by peer",
        title |-> "Connection Error"],
       [cls |-> "ClientConnectorError", msg |-> "Connection failed",
        title |-> "Connection Error"],
       [cls |-> "TimeoutError", msg |-> "Timeout Encountered",
        title |-> "Timeout Error"] >>

\* the except clauses in source order: class caught, message, title
ExceptClauses ==
    << [cls |-> "ClientConnectorError", msg |-> "Connection failed",
        title |-> "Connection Error"],
       [cls |-> "ClientOSError", msg |-> "Connection reset by peer",
        title |-> "Connection Error"],
       [cls |-> "TimeoutError", msg |-> "Timeout Encountered",
        title |-> "Timeout Error"] >>

\* variant: the last clause catches whatever the others let through
MatchingClause_CatchAll(cls) ==
    LET I == {k \in 1..Len(ExceptClauses) : IsInstance(cls, ExceptClauses[k].cls)}
    IN  IF I = {} THEN Len(ExceptClauses) ELSE MinOf(I)

\* index of the first clause that catches cls, 0 when none does
MatchingClause(cls) ==
    LET I == {k \in 1..Len(ExceptClauses) : IsInstance(cls, ExceptClauses[k].cls)}
    IN  IF I = {} THEN 0 ELSE MinOf(I)

\* variant: the matching clause throws without logging
Except_NoLog ==
    /\ pc = "except"
    /\ IF MatchingClause(error.cls) = 0
       THEN /\ raised' = Uncaught(error.cls)
            /\ pc' = "idle"
       ELSE /\ raised' = raised
            /\ pc' = "throw"
    /\ UNCHANGED <<fields, locals, trace, calls, request_logs, post_requests>>
    /\ UNCHANGED previous

\* an exception left the try body: the first matching clause logs it,
\* an exception no clause catches leaves make_remote_call
Except ==
    /\ pc = "except"
    /\ IF MatchingClause(error.cls) = 0
       THEN /\ trace' = trace
            /\ raised' = Uncaught(error.cls)
            /\ pc' = "idle"
       ELSE /\ trace' = Append(trace, [op |-> "etims_logger.exception",
                                       error |-> error, exc_info |-> TRUE])
            /\ raised' = raised
            /\ pc' = "throw"
    /\ UNCHANGED <<fields, locals, calls, request_logs, post_requests>>
    /\ UNCHANGED previous

\* variant: the message thrown is also stored as the last error
Throw_RecordsError ==
    /\ pc = "throw"
    /\ LET c == ExceptClauses[MatchingClause(error.cls)]
       IN  raised' = Thrown(c.msg, c.title, error.cls)
    /\ pc' = "idle"
    /\ _error' = Str(<<"e">>)
    /\ UNCHANGED <<_method, _url, _payload, _headers,
                   _success_callback_handler, _error_callback_handler>>
    /\ UNCHANGED <<locals, trace, calls, request_logs, post_requests>>
    /\ UNCHANGED previous

\* frappe.throw(message, error, title=...) of the clause that caught the error
Throw ==
    /\ pc = "throw"
    /\ LET c == ExceptClauses[MatchingClause(error.cls)]
       IN  raised' = Thrown(c.msg, c.title, error.cls)
    /\ pc' = "idle"
    /\ UNCHANGED <<fields, locals, trace, calls, request_logs, post_requests>>
    /\ UNCHANGED previous

Next ==
    \/ \E m \in Methods : SetMethod(m)
    \/ \E u \in UrlValues : SetUrl(u)
    \/ \E p \in PayloadValues : SetPayload(p)
    \/ \E e \in ErrorValues : SetError(e)
    \/ \E h \in HeaderValues : SetHeaders(h)
    \/ SetSuccessCallback(Callable("on_success"))
    \/ SetErrorCallback(Callable("on_error"))
    \/ \E dt \in DoctypeValues, dn \in DocnameValues : MakeRemoteCall(dt, dn)
    \/ CreateRequestLog
    \/ \E o \in TransportOutcomes : MakePostRequest(o)
    \/ Classify
    \/ \E o \in CallOutcomes : SuccessCallback(o)
    \/ \E o \in CallOutcomes : UpdateLastRequestDate(o)
    \/ \E o \in CallOutcomes : ErrorCallback(o)
    \/ Except
    \/ Throw

Spec == Init /\ [][Next]_vars

\* ---------------------------------------------------------------- properties
\* positions of the calls of one collaborator in the current make_remote_call
Calls(op) == {i \in DOMAIN trace : trace[i].op = op}
Count(op) == Cardinality(Calls(op))
\* the last make_remote_call is over
Ended == pc = "idle" /\ calls > 0
SetupError == raised # None /\ raised.tag = "thrown" /\ raised.title = "Setup Error"
\* the last make_remote_call got past the opening if
Validated == calls > 0 /\ ~SetupError
HasResponse == response # None
HasResultCd == HasResponse /\ "resultCd" \in DOMAIN response
\* the url, as it was when the request log was written
LoggedUrl == trace[1].url

\* C1: a make_remote_call with url, headers, success callback or error
\* callback unset throws the "Setup Error" and does nothing else: no request
\* log, no request, no callback, no update of the last request date.
C1_SetupErrorNoEffects ==
    [][ ( /\ calls' = calls + 1
          /\ \/ _url = None
             \/ _headers = None
             \/ _success_callback_handler = None
             \/ _error_callback_handler = None )
        => ( /\ pc' = "idle"
             /\ raised'.tag = "thrown"
             /\ raised'.title = "Setup Error"
             /\ raised'.cause = "MandatoryError"
             /\ trace' = <<>>
             /\ request_logs' = request_logs
             /\ post_requests' = post_requests ) ]_vars

C1_Witness ==
    /\ Ended
    /\ SetupError
    /\ _url # None
    /\ _headers = None
    /\ trace = <<>>

\* C2 as stated: whenever the response carries resultCd "000", the success
\* callback is called exactly once with the response, the error callback is
\* not called, and the last request date is updated with resultDt and the
\* route path of the url.
C2_SuccessAlwaysTracked ==
    (Ended /\ HasResultCd /\ response.resultCd = "000")
    => /\ Count("success_callback") = 1
       /\ \A i \in Calls("success_callback") : trace[i].response = response
       /\ Count("error_callback") = 0
       /\ Count("update_last_request_date") = 1
       /\ \A i \in Calls("update_last_request_date") :
            /\ "resultDt" \in DOMAIN response
            /\ trace[i].response_datetime = response.resultDt
            /\ trace[i].route = Str(RoutePath(LoggedUrl.val))

\* C2 amended: the update of the last request date is made when the success
\* callback returned and the response carries resultDt, and only then.
C2_SuccessRouted ==
    (Ended /\ HasResultCd /\ response.resultCd = "000")
    => /\ Count("success_callback") = 1
       /\ \A i \in Calls("success_callback") : trace[i].response = response
       /\ Count("error_callback") = 0
       /\ Count("update_last_request_date") <= 1
       /\ ( Count("update_last_request_date") = 1
            <=> ( /\ "resultDt" \in DOMAIN response
                  /\ \A i \in Calls("success_callback") : trace[i].outcome = "return" ) )
       /\ \A i \in Calls("update_last_request_date") :
            /\ trace[i].response_datetime = response.resultDt
            /\ trace[i].route = Str(RoutePath(LoggedUrl.val))
            /\ \E j \in Calls("success_callback") : j < i

C2_Witness ==
    /\ Ended
    /\ raised = Returned
    /\ HasResultCd
    /\ response.resultCd = "000"
    /\ LoggedUrl = Str(EndpointUrl)
    /\ \E i \in Calls("update_last_request_date") :
         /\ trace[i].route = Str(EndpointRoute)
         /\ trace[i].response_datetime = "20240101"

\* C3: when the response carries a resultCd other than "000", the error
\* callback is called exactly once with the response, the route path, the
\* doctype and document name of the call and the name of the request log
\* written in this call; the success callback is not called and the last
\* request date is not updated.
C3_BusinessErrorRouted ==
    (Ended /\ HasResultCd /\ response.resultCd # "000")
    => /\ Count("error_callback") = 1
       /\ \A i \in Calls("error_callback") :
            /\ trace[i].args.response = response
            /\ trace[i].args.url = Str(RoutePath(LoggedUrl.val))
            /\ trace[i].args.doctype = doctype
            /\ trace[i].args.document_name = document_name
            /\ \E j \in Calls("create_request_log") :
                 trace[i].args.integration_reqeust_name = trace[j].name
            /\ trace[i].args.integration_reqeust_name = request_logs
       /\ Count("success_callback") = 0
       /\ Count("update_last_request_date") = 0

C3_Witness ==
    /\ Ended
    /\ HasResultCd
    /\ response.resultCd = "001"
    /\ doctype # None
    /\ \E i \in Calls("error_callback") : trace[i].args.url = Str(EndpointRoute)

\* C4: a make_remote_call that gets past the opening if writes exactly one
\* request log, and writes it before the request is made, on every path.
C4_LogBeforeRequest ==
    /\ Count("create_request_log") <= 1
    /\ Count("make_post_request") <= 1
    /\ \A i \in Calls("make_post_request") :
         \E j \in Calls("create_request_log") : j < i
    /\ (pc \notin {"idle", "create_request_log"}) => Count("create_request_log") = 1
    /\ (Ended /\ Validated) => Count("create_request_log") = 1

C4_Witness ==
    /\ Ended
    /\ raised # None
    /\ raised.tag = "thrown"
    /\ raised.msg = "Timeout Encountered"
    /\ Count("create_request_log") = 1
    /\ Count("make_post_request") = 1

\* the request itself raised: no response was bound
RequestRaised(cls) == Ended /\ Validated /\ ~HasResponse /\ error = Exception(cls)
ThrownWith(msg) == raised # None /\ raised.tag = "thrown" /\ raised.msg = msg

\* C5: when the request raises ClientConnectorError, another ClientOSError or
\* TimeoutError, no callback is called, the last request date is not
\* updated, and the message thrown is "Connection failed", "Connection reset
\* by peer" and "Timeout Encountered" respectively.
C5_TransportFaultMessages ==
    /\ \A cls \in {"ClientConnectorError", "ClientOSError", "TimeoutError"} :
         RequestRaised(cls)
         => /\ Count("success_callback") = 0
            /\ Count("error_callback") = 0
            /\ Count("update_last_request_date") = 0
            /\ raised # None
            /\ raised.tag = "thrown"
    /\ RequestRaised("ClientConnectorError") => ThrownWith("Connection failed")
    /\ RequestRaised("ClientOSError") => ThrownWith("Connection reset by peer")
    /\ RequestRaised("TimeoutError") => ThrownWith("Timeout Encountered")

C5_Witness ==
    /\ RequestRaised("ClientConnectorError")
    /\ ThrownWith("Connection failed")

\* C6 as stated: whatever the response holds, exactly one callback is called,
\* and a response without resultCd "000" goes to the error callback.
C6_ExactlyOneHandler ==
    (Ended /\ HasResponse)
    => /\ Count("success_callback") + Count("error_callback") = 1
       /\ ~(HasResultCd /\ response.resultCd = "000") => Count("error_callback") = 1

\* C7 as stated: the request is made with the method the instance holds.
\* (The request log has no method field at all.)
C7_ConfiguredMethodUsed ==
    pc # "idle" => \A i \in Calls("make_post_request") : trace[i].method = _method

\* C8 as stated: no request log is written and no request is made with an
\* empty url or with empty headers.
C8_EmptyRejected ==
    \A i \in DOMAIN trace :
        /\ trace[i].op = "create_request_log"
           => trace[i].url # Str(<<>>) /\ trace[i].request_headers # Dict({})
        /\ trace[i].op = "make_post_request"
           => trace[i].url # Str(<<>>) /\ trace[i].headers # Dict({})

\* C9 as stated: over the life of one instance at most one request log is
\* written and at most one request is made.
C9_AtMostOnce == request_logs <= 1 /\ post_requests <= 1

\* ---------------------------------------------------------------- route derivation
\* urls: a scheme (and host) or none, followed by every string over the
\* delimiters of a url
RouteAlphabet == {"a", "/", "?", "#", ";", ":"}
RoutePrefixes ==
    { <<>>,
      <<"h","t","t","p","s",":">>,
      <<"w","s",":">>,
      <<"h","t","t","p","s",":","/","/","h">>,
      <<"w","s",":","/","/","h">> }
RouteUrls ==
    {EndpointUrl} \cup
    { p \o r : p \in RoutePrefixes,
               r \in UNION {[1..k -> RouteAlphabet] : k \in 0..MaxRestLen} }

\* a fully configured instance for every url
InitRoute ==
    /\ _method = "POST"
    /\ _url \in {Str(u) : u \in RouteUrls}
    /\ _payload = None
    /\ _headers = Dict({<<"cmcKey", "k">>})
    /\ _error = None
    /\ _success_callback_handler = Callable("on_success")
    /\ _error_callback_handler = Callable("on_error")
    /\ pc = "idle"
    /\ doctype = None
    /\ document_name = None
    /\ route_path = None
    /\ integration_request = None
    /\ response = None
    /\ error = None
    /\ trace = <<>>
    /\ raised = None
    /\ calls = 0
    /\ request_logs = 0
    /\ post_requests = 0
    /\ previous = None

NextRoute == MakeRemoteCall(None, None)
SpecRoute == InitRoute /\ [][NextRoute]_vars

\* the route path has been derived
Derived == pc = "create_request_log"
\* one leading "/" and no other
SingleSlash(r) == Len(r) >= 1 /\ r[1] = "/" /\ \A k \in 2..Len(r) : r[k] # "/"
\* the part of p after its last "/", all of p when it has none
AfterLastSlash(p) ==
    CHOOSE r \in {SubSeq(p, k, Len(p)) : k \in 1..(Len(p) + 1)} :
        /\ ~Contains(r, "/")
        /\ Len(r) = Len(p) \/ p[Len(p) - Len(r)] = "/"
\* the part of seg before its first ";"
BeforeSemicolon(seg) ==
    IF Contains(seg, ";") THEN SubSeq(seg, 1, Find(seg, ";", 1) - 1) ELSE seg

AltSchemes == {<<"h","t","t","p","s">>, <<"h","t","t","p">>, <<"w","s">>}
AltHosts == {<<"h">>, <<"a",":","a">>}
AltTails == {<<>>, <<"?","a","/","a">>, <<"?",";">>, <<"#","/">>}
BuildUrl(scheme, host, path, tail) == scheme \o <<":","/","/">> \o host \o path \o tail
\* the url has a scheme and a path that can follow a host
Rebuildable(u) ==
    /\ UrlSplit(u).scheme # <<>>
    /\ UrlSplit(u).path = <<>> \/ UrlSplit(u).path[1] = "/"

\* C10 as stated: the route path is "/" and the part of the url's path after
\* its last "/", has one leading "/" and no other, is "/" for a path that is
\* empty or ends in "/", and is the same for every scheme, host and query.
C10_RouteLastSegment ==
    Derived
    => LET u == _url.val
           path == UrlParse(u).path
       IN  /\ SingleSlash(route_path.val)
           /\ route_path.val = <<"/">> \o AfterLastSlash(path)
           /\ u = EndpointUrl => route_path.val = EndpointRoute
           /\ (path = <<>> \/ path[Len(path)] = "/") => route_path.val = <<"/">>
           /\ Rebuildable(u)
              => \A sc \in AltSchemes, h \in AltHosts, t \in AltTails :
                    Str(RoutePath(BuildUrl(sc, h, UrlSplit(u).path, t))) = route_path

\* C10 amended: the path is the one urlparse returns, which for the schemes
\* that take parameters, and only for them, ends before the ";" of the last
\* segment; the route path is the same for every host and query and for
\* every scheme that treats parameters alike.
C10_RouteOfParsedPath ==
    Derived
    => LET u == _url.val
           path == UrlParse(u).path
           params == UrlSplit(u).scheme \in UsesParams
           segment == AfterLastSlash(UrlSplit(u).path)
       IN  /\ SingleSlash(route_path.val)
           /\ route_path.val = <<"/">> \o AfterLastSlash(path)
           /\ route_path.val =
                <<"/">> \o (IF params THEN BeforeSemicolon(segment) ELSE segment)
           /\ u = EndpointUrl => route_path.val = EndpointRoute
           /\ (path = <<>> \/ path[Len(path)] = "/") => route_path.val = <<"/">>
           /\ Rebuildable(u)
              => \A sc \in AltSchemes, h \in AltHosts, t \in AltTails :
                    (sc \in UsesParams <=> params)
                    => Str(RoutePath(BuildUrl(sc, h, UrlSplit(u).path, t))) = route_path

C10_Witness ==
    /\ Derived
    /\ UrlSplit(_url.val).scheme = <<"w","s">>
    /\ UrlSplit(_url.val).netloc = <<"h">>
    /\ route_path = Str(<<"/","a",";","a">>)

\* ---------------------------------------------------------------- setters and endings
\* C11 as stated: the stored method is always one of the enumerated verbs,
\* and the url, payload and headers setters store their argument and change
\* no other field.
C11_MethodEnumerated ==
    /\ [](_method \in EnumeratedVerbs)
    /\ [][ /\ _url' # _url
              => /\ _url' \in UrlValues
                 /\ UNCHANGED <<_method, _payload, _headers, _error,
                                _success_callback_handler, _error_callback_handler>>
           /\ _payload' # _payload
              => /\ _payload' \in PayloadValues
                 /\ UNCHANGED <<_method, _url, _headers, _error,
                                _success_callback_handler, _error_callback_handler>>
           /\ _headers' # _headers
              => /\ _headers' \in HeaderValues
                 /\ UNCHANGED <<_method, _url, _payload, _error,
                                _success_callback_handler, _error_callback_handler>> ]_vars

\* the three messages thrown for a transport fault
TransportMessages == {"Connection failed", "Connection reset by peer", "Timeout Encountered"}
TransportClasses == {"ClientConnectorError", "ClientOSError", "TimeoutError"}
TransportError == raised # None /\ raised.tag = "thrown" /\ raised.msg \in TransportMessages

\* the four endings of a make_remote_call
EndedInSetupError == SetupError
EndedInSuccess ==
    raised = Returned /\ Count("success_callback") = 1 /\ Count("error_callback") = 0
EndedInBusinessError ==
    raised = Returned /\ Count("error_callback") = 1 /\ Count("success_callback") = 0
EndedInTransportFault == TransportError
Endings ==
    Cardinality({k \in 1..4 : \/ k = 1 /\ EndedInSetupError
                              \/ k = 2 /\ EndedInSuccess
                              \/ k = 3 /\ EndedInBusinessError
                              \/ k = 4 /\ EndedInTransportFault})

\* the transport returned a response (with resultDt when its resultCd is
\* "000") or raised one of its three faults, and every callback and the
\* update of the last request date returned
CollaboratorsBehaved ==
    /\ \A i \in DOMAIN trace : "outcome" \in DOMAIN trace[i] => trace[i].outcome = "return"
    /\ ~HasResponse => (error # None /\ error.cls \in TransportClasses)
    /\ (HasResultCd /\ response.resultCd = "000") => "resultDt" \in DOMAIN response

\* C12 as stated: a make_remote_call makes no request when validation fails
\* and exactly one when it passes, never a second one, and when the transport
\* and the callbacks return it ends in exactly one of setup error, success,
\* business error and transport fault.
C12_OneRequestOneEnding ==
    /\ Count("make_post_request") <= 1
    /\ (Ended /\ SetupError) => Count("make_post_request") = 0
    /\ (Ended /\ Validated) => Count("make_post_request") = 1
    /\ (Ended /\ (SetupError \/ CollaboratorsBehaved)) => Endings = 1

Logged == Calls("etims_logger.exception")

\* C13: a transport fault is logged exactly once, with the fault, before its
\* message is thrown; no transport message is thrown without that log entry,
\* and nothing is logged when the call returns or ends in the setup error.
C13_LogBeforeThrow ==
    /\ Cardinality(Logged) <= 1
    /\ pc = "throw"
       => /\ Cardinality(Logged) = 1
          /\ trace[Len(trace)].op = "etims_logger.exception"
          /\ trace[Len(trace)].error = error
          /\ ~TransportError
    /\ (Ended /\ TransportError)
       => /\ Cardinality(Logged) = 1
          /\ \A i \in Logged : trace[i].error = error /\ trace[i].error.cls = raised.cause
    /\ \A cls \in TransportClasses :
         RequestRaised(cls)
         => /\ TransportError
            /\ \A i \in Logged : trace[i].error = Exception(cls)
    /\ (Ended /\ (raised = Returned \/ SetupError)) => Logged = {}
    /\ (pc \notin {"idle", "throw"}) => Logged = {}

C13_Witness ==
    /\ RequestRaised("ClientOSError")
    /\ ThrownWith("Connection reset by peer")
    /\ Cardinality(Logged) = 1
    /\ trace[Len(trace)] = [op |-> "etims_logger.exception",
                            error |-> Exception("ClientOSError"), exc_info |-> TRUE]

\* the updates of the last request date that were carried out
Updates == {i \in Calls("update_last_request_date") : trace[i].outcome = "return"}
SuccessCallbackRaised ==
    \E i \in Calls("success_callback") : trace[i].outcome = "raise"

\* C14: the last request date is updated at most once in a call, only for a
\* response with resultCd "000" and only after the success callback has
\* returned; never in a call that ends in the setup error, a business error
\* or a transport fault, nor when the success callback raises.
C14_UpdateOnlyAfterSuccess ==
    /\ Count("update_last_request_date") <= 1
    /\ \A i \in Calls("update_last_request_date") :
         /\ HasResultCd
         /\ response.resultCd = "000"
         /\ Count("error_callback") = 0
         /\ \E j \in Calls("success_callback") : j < i /\ trace[j].outcome = "return"
    /\ Updates # {} => (Ended /\ raised = Returned)
    /\ ( \/ SetupError
         \/ Count("error_callback") > 0
         \/ TransportError
         \/ SuccessCallbackRaised ) => Updates = {}

C14_Witness ==
    /\ Ended
    /\ Cardinality(Updates) = 1
    /\ trace[Len(trace)].op = "update_last_request_date"
    /\ trace[Len(trace) - 1].op = "success_callback"
    /\ _error # None

\* C15 as stated: when a call ends with one of the three transport messages,
\* no callback was called and no update of the last request date was tried:
\* only an exception of the request itself is reported as a transport fault.
C15_TransportErrorOnlyFromRequest ==
    (Ended /\ TransportError)
    => /\ Count("success_callback") = 0
       /\ Count("error_callback") = 0
       /\ Count("update_last_request_date") = 0
       /\ ~HasResponse

\* ---------------------------------------------------------------- two calls side by side
\* a configured (or nearly configured) instance whose calls are kept in
\* previous; between calls only the last error is set
InitPair ==
    /\ _method \in Methods
    /\ _url = Str(EndpointUrl)
    /\ _payload \in PayloadValues
    /\ _headers \in {None, Dict({<<"cmcKey", "k">>})}
    /\ _error = None
    /\ _success_callback_handler = Callable("on_success")
    /\ _error_callback_handler = Callable("on_error")
    /\ pc = "idle"
    /\ doctype = None
    /\ document_name = None
    /\ route_path = None
    /\ integration_request = None
    /\ response = None
    /\ error = None
    /\ trace = <<>>
    /\ raised = None
    /\ calls = 0
    /\ request_logs = 0
    /\ post_requests = 0
    /\ previous = [tag |-> "kept", config |-> None, last |-> None]

NextPair ==
    \/ \E e \in ErrorValues : SetError(e)
    \/ \E dt \in DoctypeValues, dn \in DocnameValues : MakeRemoteCall(dt, dn)
    \/ CreateRequestLog
    \/ \E o \in TransportOutcomes : MakePostRequest(o)
    \/ Classify
    \/ \E o \in CallOutcomes : SuccessCallback(o)
    \/ \E o \in CallOutcomes : UpdateLastRequestDate(o)
    \/ \E o \in CallOutcomes : ErrorCallback(o)
    \/ Except
    \/ Throw

SpecPair == InitPair /\ [][NextPair]_vars

\* the current call has ended and the call before it is kept
TwoCalls == Ended /\ previous # None /\ previous.last # None
\* what the transport did in a call: the response, or the exception of the request
TransportOutcome(resp, err) == IF resp # None THEN resp ELSE err
SameTransportOutcome ==
    TransportOutcome(response, error)
        = TransportOutcome(previous.last.response, previous.last.error)
\* the callbacks and the update did the same in both calls, where both ran them
SameCollaboratorOutcomes ==
    \A i \in DOMAIN trace, j \in DOMAIN previous.last.trace :
        (trace[i].op = previous.last.trace[j].op /\ "outcome" \in DOMAIN trace[i])
        => /\ trace[i].outcome = previous.last.trace[j].outcome
           /\ trace[i].outcome = "raise" => error = previous.last.error
\* a trace without the names the request log hands out
Unnamed(tr) ==
    [i \in DOMAIN tr |->
        IF tr[i].op = "create_request_log" THEN [tr[i] EXCEPT !.name = 0]
        ELSE IF tr[i].op = "error_callback"
             THEN [tr[i] EXCEPT !.args.integration_reqeust_name = 0]
             ELSE tr[i]]
\* a trace without the names, the doctype and the document name
Anonymous(tr) ==
    [i \in DOMAIN tr |->
        IF tr[i].op = "create_request_log"
        THEN [tr[i] EXCEPT !.name = 0, !.reference_doctype = None,
                           !.reference_docname = None]
        ELSE IF tr[i].op = "error_callback"
             THEN [tr[i] EXCEPT !.args.integration_reqeust_name = 0,
                                !.args.doctype = None, !.args.document_name = None]
             ELSE tr[i]]
IsRequest(e) == e.op = "make_post_request"
IsCallback(e) == e.op \in {"success_callback", "error_callback"}
CallbackNames(tr) ==
    LET cb == SelectSeq(tr, IsCallback) IN [i \in DOMAIN cb |-> cb[i].op]

\* C16: make_remote_call assigns none of the fields, on any path, and a
\* second call with the same fields, arguments, transport outcome and
\* callback outcomes makes the same calls in the same order and ends the
\* same way as the first (the name of the request log apart).
C16_FieldsKeptCallsRepeat ==
    /\ [][ (pc # "idle" \/ calls' # calls)
           => UNCHANGED <<_method, _url, _payload, _headers, _error,
                          _success_callback_handler, _error_callback_handler>> ]_vars
    /\ []( ( /\ TwoCalls
             /\ previous.last.config = previous.config
             /\ previous.last.doctype = doctype
             /\ previous.last.document_name = document_name
             /\ SameTransportOutcome
             /\ SameCollaboratorOutcomes )
           => /\ Unnamed(trace) = Unnamed(previous.last.trace)
              /\ raised = previous.last.raised )

C16_Witness ==
    /\ TwoCalls
    /\ previous.last.config = previous.config
    /\ previous.last.doctype = doctype
    /\ previous.last.document_name = document_name
    /\ SameTransportOutcome
    /\ SameCollaboratorOutcomes
    /\ ThrownWith("Timeout Encountered")
    /\ HasResponse
    /\ Count("error_callback") = 1
    /\ _error # None

\* C17: an exception of none of the three caught classes (the KeyError of a
\* response without resultCd, or of a "000" response without resultDt)
\* leaves make_remote_call as raised: nothing is logged and no message is
\* thrown; the request log exists, and in the resultDt case the success
\* callback has been called and the last request date is not updated.
C17_OtherExceptionsPropagate ==
    /\ (Ended /\ Validated /\ error # None /\ error.cls \notin TransportClasses)
       => /\ raised = Uncaught(error.cls)
          /\ Logged = {}
          /\ Count("create_request_log") = 1
          /\ Count("make_post_request") = 1
    /\ (Ended /\ HasResponse /\ ~HasResultCd)
       => /\ raised = Uncaught("KeyError")
          /\ Count("success_callback") = 0
          /\ Count("error_callback") = 0
    /\ ( /\ Ended
         /\ HasResultCd
         /\ response.resultCd = "000"
         /\ "resultDt" \notin DOMAIN response
         /\ ~SuccessCallbackRaised )
       => /\ raised = Uncaught("KeyError")
          /\ Count("success_callback") = 1
          /\ Count("update_last_request_date") = 0
    /\ (Ended /\ raised # None /\ raised.tag = "uncaught")
       => raised.cls \notin TransportClasses

C17_Witness ==
    /\ Ended
    /\ raised = Uncaught("KeyError")
    /\ HasResultCd
    /\ "resultDt" \notin DOMAIN response
    /\ Count("success_callback") = 1
    /\ Count("create_request_log") = 1
    /\ Count("update_last_request_date") = 0

\* the fields of a call other than the last error
ConfigButError(c) == <<c[1], c[2], c[3], c[4], c[6], c[7]>>

\* C18: two calls that differ only in the last error, the doctype and the
\* document name, and meet the same transport outcome, make the same request
\* and call the same callback; with the same callback outcomes they differ
\* in nothing but the doctype and document name given to the request log and
\* to the error callback.
C18_ErrorAndEntityUnused ==
    ( /\ TwoCalls
      /\ ConfigButError(previous.last.config) = ConfigButError(previous.config)
      /\ SameTransportOutcome )
    => /\ SelectSeq(trace, IsRequest) = SelectSeq(previous.last.trace, IsRequest)
       /\ CallbackNames(trace) = CallbackNames(previous.last.trace)
       /\ SameCollaboratorOutcomes
          => /\ Anonymous(trace) = Anonymous(previous.last.trace)
             /\ raised = previous.last.raised

C18_Witness ==
    /\ TwoCalls
    /\ ConfigButError(previous.last.config) = ConfigButError(previous.config)
    /\ previous.last.config[5] # previous.config[5]
    /\ previous.last.doctype # doctype
    /\ previous.last.document_name # document_name
    /\ SameTransportOutcome
    /\ HasResultCd
    /\ response.resultCd = "000"
    /\ CallbackNames(trace) = <<"success_callback">>
    /\ Len(SelectSeq(trace, IsRequest)) = 1
====
